---- MODULE Spec2Model ----
(***************************************************************************)
(* Tow-job workflow tracker (hargageys/towing-app).                        *)
(*                                                                         *)
(* The state is the persisted state of the application: the user, job,     *)
(* photo and event tables and the files under the upload root.  Every      *)
(* request handler is an operator from (committed state, request) to       *)
(* (response, committed state afterwards); the action of a handler applies *)
(* that operator to a request drawn from small input sets.  A request that *)
(* is refused leaves the committed rows as they were.                      *)
(***************************************************************************)
EXTENDS Integers, Sequences, FiniteSets, TLC

VARIABLES
    users,      \* table users: id -> row
    jobs,       \* table tow_jobs, in creation order; a job's id is its index
    events,     \* table tow_job_events, in insertion order
    photos,     \* table tow_job_photos, in insertion order
    files,      \* the paths of the files under the upload root
    now,        \* the time of the database server, in ticks of its clock
    commits,    \* history: number of committed writes
    tally,      \* history: per job, the successful assignments and status updates
    inflight    \* per session, the request that has read and not yet committed

vars == <<users, jobs, events, photos, files, now, commits, tally, inflight>>

-----------------------------------------------------------------------------
(* Bounds of the model.                                                    *)

\* Number of committed write transactions explored.
MaxCommits == 2

-----------------------------------------------------------------------------
(* Python values.                                                          *)

\* Optional[T]: None is the empty tuple, a present value v is <<v>>.
None == <<>>
Some(v) == <<v>>

\* A text is a sequence of atoms; the atoms " " and "\n" are whitespace.
Whitespace == {" ", "\n"}

RECURSIVE LStrip(_)
LStrip(s) == IF s # <<>> /\ Head(s) \in Whitespace THEN LStrip(Tail(s)) ELSE s

RECURSIVE RStrip(_)
RStrip(s) ==
    IF s # <<>> /\ s[Len(s)] \in Whitespace THEN RStrip(SubSeq(s, 1, Len(s) - 1)) ELSE s

\* str.strip()
Strip(s) == RStrip(LStrip(s))

\* str.upper() on the atoms used as plate numbers.
UpperAtom(a) ==
    CASE a = "abc123" -> "ABC123"
      [] a = "xy9" -> "XY9"
      [] OTHER -> a

Upper(s) == [i \in 1..Len(s) |-> UpperAtom(s[i])]

Range(f) == {f[x] : x \in DOMAIN f}

\* Truthiness of an Optional[str]: None and "" are false.
Truthy(opt) == opt # None /\ opt[1] # <<>>

-----------------------------------------------------------------------------
(* Enumerations.                                                           *)

UserRole == {"OFFICER", "DRIVER", "DISPATCHER", "ADMIN"}

TowStatus == {"NEW", "ASSIGNED", "EN_ROUTE", "ARRIVED", "TOWED", "CLOSED", "CANCELLED"}

-----------------------------------------------------------------------------
(* The users of the seed, and the credentials a request can carry.         *)

\* hash_password: a one-way hash of the password.
hash_password(password) == <<"argon2id", password>>

seed_users ==
    [u \in {"officer1", "driver1", "dispatcher1", "admin1"} |->
        CASE u = "officer1" ->
                [name |-> <<"Officer One">>, phone |-> <<"+252634000001">>,
                 role |-> "OFFICER", password_hash |-> hash_password("officer123"),
                 is_active |-> TRUE]
          [] u = "driver1" ->
                [name |-> <<"Driver One">>, phone |-> <<"+252634000002">>,
                 role |-> "DRIVER", password_hash |-> hash_password("driver123"),
                 is_active |-> TRUE]
          [] u = "dispatcher1" ->
                [name |-> <<"Dispatcher One">>, phone |-> <<"+252634000003">>,
                 role |-> "DISPATCHER", password_hash |-> hash_password("dispatch123"),
                 is_active |-> TRUE]
          [] u = "admin1" ->
                [name |-> <<"Admin">>, phone |-> <<"+252634000004">>,
                 role |-> "ADMIN", password_hash |-> hash_password("admin123"),
                 is_active |-> TRUE]]

\* A request carries no credentials, a token that does not decode, or a
\* token whose subject is a user id (possibly of no stored user).
NoCreds == "no-credentials"
BadToken == "bad-token"
GhostId == "ghost"
Tokens == DOMAIN seed_users \cup {GhostId, BadToken, NoCreds}

-----------------------------------------------------------------------------
(* The session: a handler works on a copy of the committed rows; commit    *)
(* makes the copy the committed state, an exception discards the pending   *)
(* rows.  Files are written outside the session and stay as written.       *)

DB == [users |-> users, jobs |-> jobs, events |-> events, photos |-> photos,
       files |-> files]

Commit(w, body) == [code |-> 200, detail |-> "", body |-> body, db |-> w]

Raise(code, detail, w) ==
    [code |-> code, detail |-> detail, body |-> None, db |-> [DB EXCEPT !.files = w.files]]

\* db.commit() raises (the database is locked, the disk is full): no handler
\* catches it, the rows of the session are dropped and the response is 500.
CommitFails(r) ==
    IF r.code = 200 THEN Raise(500, "Internal Server Error", r.db) ELSE r

-----------------------------------------------------------------------------
(* app/core/auth.py                                                        *)

\* create_access_token(subject=user.id, role=user.role.value): the role in the
\* payload of a token is the role of its subject when the token was issued.
\* The tokens of the requests were issued to the users of the seed.
TokenRole(token) == IF token \in DOMAIN seed_users THEN seed_users[token].role ELSE "OFFICER"

\* Mutant: a token that decodes is trusted, the user row is not read.
get_current_user_trusts_token(token) ==
    IF token = NoCreds THEN [code |-> 401, detail |-> "Not authenticated"]
    ELSE IF token = BadToken THEN [code |-> 401, detail |-> "Invalid token"]
    ELSE [code |-> 200, id |-> token, role |-> TokenRole(token)]

get_current_user(token) ==
    IF token = NoCreds THEN [code |-> 401, detail |-> "Not authenticated"]
    ELSE IF token = BadToken THEN [code |-> 401, detail |-> "Invalid token"]
    ELSE IF token \notin DOMAIN users \/ ~users[token].is_active
         THEN [code |-> 401, detail |-> "User inactive or not found"]
    ELSE [code |-> 200, id |-> token, role |-> users[token].role]

\* Mutant: the role of the caller is not compared with the roles allowed.
require_roles_unchecked(roles, token) == get_current_user(token)

require_roles(roles, token) ==
    LET user == get_current_user(token) IN
    IF user.code # 200 THEN user
    ELSE IF user.role \notin roles THEN [code |-> 403, detail |-> "Forbidden"]
    ELSE user

-----------------------------------------------------------------------------
(* app/core/config.py, app/services/storage.py                            *)

MAX_UPLOAD_MB == 8

\* file.file.read(1024 * 1024)
ChunkBytes == 1024 * 1024

UPLOAD_DIR == "uploads"

Min(a, b) == IF a < b THEN a ELSE b

\* Mutant: the limit is exclusive, a stream of exactly max_bytes is refused.
StreamChunks_limit_exclusive(remaining, bytes_written, max_bytes, io_error) ==
    IF io_error THEN [code |-> 500, bytes_written |-> bytes_written]
    ELSE IF remaining = 0 THEN [code |-> 200, bytes_written |-> bytes_written]
    ELSE IF bytes_written + remaining >= max_bytes
         THEN [code |-> 413, bytes_written |-> max_bytes]
    ELSE [code |-> 200, bytes_written |-> bytes_written + remaining]

\* The read loop of save_upload_streaming over a stream with `remaining`
\* unread bytes: 413 as soon as the count passes max_bytes, 500 when a read
\* or write fails, otherwise the number of bytes written.
RECURSIVE StreamChunks(_, _, _, _)
StreamChunks(remaining, bytes_written, max_bytes, io_error) ==
    IF io_error THEN [code |-> 500, bytes_written |-> bytes_written]
    ELSE IF remaining = 0 THEN [code |-> 200, bytes_written |-> bytes_written]
    ELSE
      LET chunk == Min(remaining, ChunkBytes) IN
      IF bytes_written + chunk > max_bytes
      THEN [code |-> 413, bytes_written |-> bytes_written + chunk]
      ELSE StreamChunks(remaining - chunk, bytes_written + chunk, max_bytes, FALSE)

\* Mutant: the file is left in place when the loop raises.
save_upload_streaming_partial_kept(w, file) ==
    LET path == <<UPLOAD_DIR, Cardinality(w.files) + 1>>
        r == StreamChunks(file.size, 0, MAX_UPLOAD_MB * 1024 * 1024, file.io_error)
    IN [code |-> r.code,
        detail |-> IF r.code = 200 THEN "" ELSE IF r.code = 413 THEN "File too large"
                   ELSE "Upload failed",
        path |-> path, size_bytes |-> IF r.code = 200 THEN r.bytes_written ELSE 0,
        w |-> [w EXCEPT !.files = @ \cup {path}]]

\* The path is a fresh generated name under the upload root; the file is
\* created by open() and removed again when the loop raises.
save_upload_streaming(w, file) ==
    LET path == <<UPLOAD_DIR, Cardinality(w.files) + 1>>
        max_bytes == MAX_UPLOAD_MB * 1024 * 1024
        opened == [w EXCEPT !.files = @ \cup {path}]
        r == StreamChunks(file.size, 0, max_bytes, file.io_error)
    IN
    IF r.code = 200
    THEN [code |-> 200, detail |-> "", path |-> path, size_bytes |-> r.bytes_written, w |-> opened]
    ELSE [code |-> r.code,
          detail |-> IF r.code = 413 THEN "File too large" ELSE "Upload failed",
          path |-> path, size_bytes |-> 0,
          w |-> [opened EXCEPT !.files = @ \ {path}]]

-----------------------------------------------------------------------------
(* app/routers/tow_jobs.py                                                 *)

\* Mutant: the event is built and never added to the session.
_log_event_skipped(w, tow_job_id, actor_user_id, event_type, message) == w

\* Mutant: one event per job is kept, a newer one replaces it.
_log_event_latest_only(w, tow_job_id, actor_user_id, event_type, message) ==
    [w EXCEPT !.events =
        Append(SelectSeq(@, LAMBDA e : e.tow_job_id # tow_job_id),
               [id |-> Len(w.events) + 1, tow_job_id |-> tow_job_id,
                actor_user_id |-> actor_user_id, event_type |-> event_type,
                message |-> message, created_at |-> now])]

\* Mutant: a status update that keeps the status is not logged.
_log_event_changes_only(w, tow_job_id, actor_user_id, event_type, message) ==
    IF event_type = "STATUS_CHANGED" /\ message[2] = message[4] THEN w
    ELSE [w EXCEPT !.events = Append(@,
            [id |-> Len(w.events) + 1, tow_job_id |-> tow_job_id,
             actor_user_id |-> actor_user_id, event_type |-> event_type,
             message |-> message, created_at |-> now])]

_log_event(w, tow_job_id, actor_user_id, event_type, message) ==
    [w EXCEPT !.events = Append(@,
        [id |-> Len(w.events) + 1, tow_job_id |-> tow_job_id,
         actor_user_id |-> actor_user_id, event_type |-> event_type,
         message |-> message, created_at |-> now])]

\* The sequences that hold each element of the set S once.
SeqsOf(S) ==
    {s \in [1..Cardinality(S) -> S] :
        \A i, k \in 1..Cardinality(S) : i # k => s[i] # s[k]}

\* query.order_by(created_at.asc() or .desc()).all(): the results the database
\* can return; the order of rows of equal created_at is not determined.
OrderByCreatedAt(rows, desc) ==
    {s \in SeqsOf(rows) :
        \A i \in 1..(Cardinality(rows) - 1) :
            IF desc THEN s[i].created_at >= s[i + 1].created_at
            ELSE s[i].created_at <= s[i + 1].created_at}

\* GET /tow-jobs: the body is the set of results the query can return.
list_tow_jobs(token, status_filter) ==
    LET user == get_current_user(token) IN
    IF user.code # 200 THEN Raise(user.code, user.detail, DB)
    ELSE
      LET q1 == IF user.role = "OFFICER"
                THEN {job \in Range(jobs) : job.officer_id = user.id}
                ELSE IF user.role = "DRIVER"
                THEN {job \in Range(jobs) : job.assigned_driver_id = Some(user.id)}
                ELSE Range(jobs)
      IN
      IF Truthy(status_filter)
      THEN IF status_filter[1] \notin {<<st>> : st \in TowStatus}
           THEN Raise(400, "Invalid status_filter", DB)
           ELSE Commit(DB, OrderByCreatedAt({job \in q1 : <<job.status>> = status_filter[1]}, TRUE))
      ELSE Commit(DB, OrderByCreatedAt(q1, TRUE))

\* POST /tow-jobs
create_tow_job(token, payload) ==
    LET user == require_roles({"OFFICER", "ADMIN"}, token) IN
    IF user.code # 200 THEN Raise(user.code, user.detail, DB)
    ELSE
      LET job == [id |-> Len(jobs) + 1,
                  plate_number |-> Upper(Strip(payload.plate_number)),
                  officer_id |-> user.id,
                  status |-> "NEW",
                  assigned_driver_id |-> None,
                  violation_type |-> payload.violation_type,
                  notes |-> payload.notes,
                  location_lat |-> payload.location_lat,
                  location_lng |-> payload.location_lng,
                  location_accuracy_m |-> payload.location_accuracy_m,
                  created_at |-> now]
          w1 == [DB EXCEPT !.jobs = Append(@, job)]
          w2 == _log_event(w1, job.id, user.id, "CREATED",
                           <<"Job created for plate">> \o job.plate_number)
      IN Commit(w2, job)

\* Mutant: an officer passes on every job, the owner is not compared.
_assert_job_access_any_officer(user, job) ==
    IF user.role \in {"DISPATCHER", "ADMIN"} THEN TRUE
    ELSE IF user.role = "OFFICER" THEN TRUE
    ELSE IF user.role = "DRIVER" /\ job.assigned_driver_id = Some(user.id) THEN TRUE
    ELSE FALSE

\* The job-access guard: TRUE when the handler goes on, FALSE when it raises 403.
_assert_job_access(user, job) ==
    IF user.role \in {"DISPATCHER", "ADMIN"} THEN TRUE
    ELSE IF user.role = "OFFICER" /\ job.officer_id = user.id THEN TRUE
    ELSE IF user.role = "DRIVER" /\ job.assigned_driver_id = Some(user.id) THEN TRUE
    ELSE FALSE

\* db.query(TowJob).filter(TowJob.id == job_id).first()
JobExists(w, job_id) == job_id \in 1..Len(w.jobs)

\* Mutant: the filter on is_active is missing.
QueryDriver_any_driver(w, driver_id) ==
    driver_id \in DOMAIN w.users /\ w.users[driver_id].role = "DRIVER"

\* db.query(User).filter(User.id == driver_id, User.role == DRIVER,
\*                      User.is_active == True).first() finds a row.
QueryDriver(w, driver_id) ==
    /\ driver_id \in DOMAIN w.users
    /\ w.users[driver_id].role = "DRIVER"
    /\ w.users[driver_id].is_active = TRUE

\* Mutant: a job that has a driver keeps it.
AssignTo_driver_kept(job, driver_id) ==
    [job EXCEPT !.assigned_driver_id = IF @ = None THEN Some(driver_id) ELSE @,
                !.status = "ASSIGNED"]

\* Mutant: the status is set only on a job that is still NEW.
AssignTo_new_only(job, driver_id) ==
    [job EXCEPT !.assigned_driver_id = Some(driver_id),
                !.status = IF @ = "NEW" THEN "ASSIGNED" ELSE @]

\* job.assigned_driver_id = driver.id; job.status = TowStatus.ASSIGNED
AssignTo(job, driver_id) ==
    [job EXCEPT !.assigned_driver_id = Some(driver_id), !.status = "ASSIGNED"]

\* POST /tow-jobs/{job_id}/assign
assign_driver(token, job_id, payload) ==
    LET user == require_roles({"DISPATCHER", "ADMIN"}, token) IN
    IF user.code # 200 THEN Raise(user.code, user.detail, DB)
    ELSE IF ~JobExists(DB, job_id) THEN Raise(404, "Tow job not found", DB)
    ELSE
      LET d == payload.driver_id IN
      IF ~QueryDriver(DB, d) THEN Raise(400, "Driver not found", DB)
      ELSE
        LET w1 == [DB EXCEPT !.jobs[job_id] = AssignTo(@, d)]
            w2 == _log_event(w1, job_id, user.id, "ASSIGNED", <<"Assigned to driver", d>>)
        IN Commit(w2, w2.jobs[job_id])

\* Mutant: the notes are replaced by the new line.
AppendNotes_replaces(job_notes, role, payload_notes) ==
    Some(<<"[", role, "]", " ">> \o Strip(payload_notes[1]))

\* The notes of a job after a status update that carries notes.
AppendNotes(job_notes, role, payload_notes) ==
    LET existing == Strip(IF job_notes = None THEN <<>> ELSE job_notes[1])
        line == <<"[", role, "]", " ">> \o Strip(payload_notes[1])
    IN Some(IF existing # <<>> THEN Strip(existing \o <<"\n">> \o line) ELSE line)

\* Mutant: a terminal status is kept.
SetStatus_terminal_kept(job, status) ==
    IF job.status \in {"CLOSED", "CANCELLED"} THEN job ELSE [job EXCEPT !.status = status]

\* job.status = payload.status
SetStatus(job, status) == [job EXCEPT !.status = status]

\* Mutant: old is read after the status has been set.
StatusMessage_old_read_late(old, job, payload) ==
    <<"Status", job.status, "->", job.status>>
      \o (IF Truthy(payload.notes) THEN <<"|">> \o Strip(payload.notes[1]) ELSE <<>>)

\* f"Status {old} -> {job.status.value}" + (f" | {payload.notes.strip()}" if payload.notes else "")
StatusMessage(old, job, payload) ==
    <<"Status", old, "->", job.status>>
      \o (IF Truthy(payload.notes) THEN <<"|">> \o Strip(payload.notes[1]) ELSE <<>>)

\* POST /tow-jobs/{job_id}/status
update_status(token, job_id, payload) ==
    LET user == get_current_user(token) IN
    IF user.code # 200 THEN Raise(user.code, user.detail, DB)
    ELSE IF ~JobExists(DB, job_id) THEN Raise(404, "Tow job not found", DB)
    ELSE IF ~_assert_job_access(user, jobs[job_id]) THEN Raise(403, "Not your job", DB)
    ELSE
      LET old == jobs[job_id].status
          w1 == [DB EXCEPT !.jobs[job_id] = SetStatus(@, payload.status)]
          w2 == IF Truthy(payload.notes)
                THEN [w1 EXCEPT !.jobs[job_id].notes = AppendNotes(@, user.role, payload.notes)]
                ELSE w1
          w3 == _log_event(w2, job_id, user.id, "STATUS_CHANGED",
                           StatusMessage(old, w2.jobs[job_id], payload))
      IN Commit(w3, w3.jobs[job_id])

\* datetime.fromisoformat on the timestamps used as captured_at.
IsoDatetimes == {"2026-01-19T12:00:00+00:00", "2026-01-19T12:00:00"}

_parse_iso_datetime(dt) ==
    IF ~Truthy(dt) THEN [code |-> 200, value |-> None]
    ELSE
      LET s0 == Strip(dt[1])
          s == IF s0 = <<"2026-01-19T12:00:00", "Z">>
               THEN "2026-01-19T12:00:00+00:00"
               ELSE IF Len(s0) = 1 THEN s0[1] ELSE "unparsed"
      IN IF s \in IsoDatetimes THEN [code |-> 200, value |-> Some(s)]
         ELSE [code |-> 400, value |-> None]

allowed_types == {"BEFORE", "AFTER", "PLATE_CLOSEUP", "OTHER"}

allowed_ct == {"image/jpeg", "image/png", "image/webp"}

\* Mutant: the range of lng is not checked.
PhotoGeoError_lng_unchecked(lat, lng, name_lat, name_lng) ==
    IF (lat = None) # (lng = None) THEN <<"Provide both", name_lat, name_lng, "or neither">>
    ELSE IF lat # None /\ ~(-90 <= lat[1] /\ lat[1] <= 90)
         THEN <<name_lat, "must be between -90 and 90">>
    ELSE <<>>

\* The geo checks of a photo: <<>> when they pass, else the error detail.
PhotoGeoError(lat, lng, name_lat, name_lng) ==
    IF (lat = None) # (lng = None) THEN <<"Provide both", name_lat, name_lng, "or neither">>
    ELSE IF lat # None /\ ~(-90 <= lat[1] /\ lat[1] <= 90)
         THEN <<name_lat, "must be between -90 and 90">>
    ELSE IF lng # None /\ ~(-180 <= lng[1] /\ lng[1] <= 180)
         THEN <<name_lng, "must be between -180 and 180">>
    ELSE <<>>

PhotoRecord(w, job_id, user, form, stored) ==
    [id |-> Len(w.photos) + 1,
     tow_job_id |-> job_id,
     uploaded_by_user_id |-> user.id,
     photo_type |-> form.photo_type,
     file_path |-> stored.path,
     content_type |-> form.photo.content_type,
     size_bytes |-> stored.size_bytes,
     lat |-> form.lat,
     lng |-> form.lng,
     accuracy_m |-> form.accuracy_m,
     captured_at |-> _parse_iso_datetime(form.captured_at).value,
     created_at |-> now]

PhotoMessage(form, size_bytes, how) ==
    <<form.photo_type, how, size_bytes, "bytes">>
      \o (IF form.lat # None THEN <<"| photo_geo=", form.lat, form.lng, form.accuracy_m>>
          ELSE <<>>)

\* POST /tow-jobs/{job_id}/photos
upload_job_photo(token, job_id, form) ==
    LET user == get_current_user(token) IN
    IF user.code # 200 THEN Raise(user.code, user.detail, DB)
    ELSE IF ~JobExists(DB, job_id) THEN Raise(404, "Tow job not found", DB)
    ELSE IF ~_assert_job_access(user, jobs[job_id]) THEN Raise(403, "Not your job", DB)
    ELSE IF form.photo_type \notin allowed_types THEN Raise(400, "photo_type", DB)
    ELSE IF form.photo.content_type \notin allowed_ct THEN Raise(400, "content type", DB)
    ELSE IF PhotoGeoError(form.lat, form.lng, "lat", "lng") # <<>>
         THEN Raise(400, PhotoGeoError(form.lat, form.lng, "lat", "lng"), DB)
    ELSE IF _parse_iso_datetime(form.captured_at).code # 200 THEN Raise(400, "captured_at", DB)
    ELSE
      LET stored == save_upload_streaming(DB, form.photo) IN
      IF stored.code # 200 THEN Raise(stored.code, stored.detail, stored.w)
      ELSE
        LET rec == PhotoRecord(stored.w, job_id, user, form, stored)
            w1 == [stored.w EXCEPT !.photos = Append(@, rec)]
            w2 == _log_event(w1, job_id, user.id, "PHOTO_UPLOADED",
                             PhotoMessage(form, stored.size_bytes, "uploaded"))
        IN Commit(w2, rec)

\* Mutant: the job and its CREATED event are committed before the photo is
\* saved, and stay when the photo write raises.
EvidencePhotoFailed_job_committed(stored) ==
    [code |-> stored.code, detail |-> stored.detail, body |-> None, db |-> stored.w]

\* save_upload_streaming raises while the job and its CREATED event are
\* pending in the session: the exception leaves the handler before db.commit().
EvidencePhotoFailed(stored) == Raise(stored.code, stored.detail, stored.w)

\* POST /tow-jobs/submit-evidence
submit_evidence(token, form) ==
    LET user == require_roles({"OFFICER", "ADMIN"}, token)
        plate == Upper(Strip(form.plate_number))
    IN
    IF user.code # 200 THEN Raise(user.code, user.detail, DB)
    ELSE IF plate = <<>> THEN Raise(400, "plate_number is required", DB)
    ELSE IF ~(-90 <= form.job_lat /\ form.job_lat <= 90) THEN Raise(400, "job_lat", DB)
    ELSE IF ~(-180 <= form.job_lng /\ form.job_lng <= 180) THEN Raise(400, "job_lng", DB)
    ELSE IF PhotoGeoError(form.lat, form.lng, "photo_lat", "photo_lng") # <<>>
         THEN Raise(400, PhotoGeoError(form.lat, form.lng, "photo_lat", "photo_lng"), DB)
    ELSE IF form.photo.content_type \notin allowed_ct THEN Raise(400, "content type", DB)
    ELSE IF form.photo_type \notin allowed_types THEN Raise(400, "photo_type", DB)
    ELSE IF _parse_iso_datetime(form.captured_at).code # 200 THEN Raise(400, "captured_at", DB)
    ELSE
      LET job == [id |-> Len(jobs) + 1,
                  plate_number |-> plate,
                  officer_id |-> user.id,
                  status |-> "NEW",
                  assigned_driver_id |-> None,
                  violation_type |-> form.violation_type,
                  notes |-> form.notes,
                  location_lat |-> form.job_lat,
                  location_lng |-> form.job_lng,
                  location_accuracy_m |-> form.job_accuracy_m,
                  created_at |-> now]
          w1 == [DB EXCEPT !.jobs = Append(@, job)]
          w2 == _log_event(w1, job.id, user.id, "CREATED",
                           <<"Job created via submit-evidence for plate">> \o plate)
          stored == save_upload_streaming(w2, form.photo)
      IN
      IF stored.code # 200 THEN EvidencePhotoFailed(stored)
      ELSE
        LET rec == PhotoRecord(stored.w, job.id, user, form, stored)
            w3 == [stored.w EXCEPT !.photos = Append(@, rec)]
            w4 == _log_event(w3, job.id, user.id, "PHOTO_UPLOADED",
                             PhotoMessage(form, stored.size_bytes, "uploaded via submit-evidence"))
        IN Commit(w4, [job |-> job, photo |-> rec])

\* GET /tow-jobs/{job_id}/photos/{photo_id}/download
\* Mutant: the photo is looked up by its id alone.
QueryPhoto_any_job(w, job_id, photo_id) == photo_id \in 1..Len(w.photos)

\* db.query(TowJobPhoto).filter(TowJobPhoto.id == photo_id,
\*                             TowJobPhoto.tow_job_id == job.id).first() finds a row.
QueryPhoto(w, job_id, photo_id) ==
    photo_id \in 1..Len(w.photos) /\ w.photos[photo_id].tow_job_id = job_id

\* GET /tow-jobs/{job_id}/photos/{photo_id}/download
download_job_photo(token, job_id, photo_id) ==
    LET user == get_current_user(token) IN
    IF user.code # 200 THEN Raise(user.code, user.detail, DB)
    ELSE IF ~JobExists(DB, job_id) THEN Raise(404, "Tow job not found", DB)
    ELSE IF ~_assert_job_access(user, jobs[job_id]) THEN Raise(403, "Not your job", DB)
    ELSE IF ~QueryPhoto(DB, job_id, photo_id) THEN Raise(404, "Photo not found", DB)
    ELSE IF photos[photo_id].file_path[1] # UPLOAD_DIR THEN Raise(400, "Invalid file path", DB)
    ELSE IF photos[photo_id].file_path \notin files THEN Raise(404, "File missing on server", DB)
    ELSE Commit(DB, photos[photo_id].file_path)

\* GET /tow-jobs/{job_id}/evidence
get_job_evidence(token, job_id) ==
    LET user == get_current_user(token) IN
    IF user.code # 200 THEN Raise(user.code, user.detail, DB)
    ELSE IF ~JobExists(DB, job_id) THEN Raise(404, "Tow job not found", DB)
    ELSE IF ~_assert_job_access(user, jobs[job_id]) THEN Raise(403, "Not your job", DB)
    ELSE Commit(DB, [job |-> jobs[job_id],
                     photos |-> {ph \in Range(photos) : ph.tow_job_id = job_id}])

\* GET /tow-jobs/{job_id}/events: the body is the set of results the query
\* can return.
get_job_events(token, job_id) ==
    LET user == get_current_user(token) IN
    IF user.code # 200 THEN Raise(user.code, user.detail, DB)
    ELSE IF ~JobExists(DB, job_id) THEN Raise(404, "Tow job not found", DB)
    ELSE IF ~_assert_job_access(user, jobs[job_id]) THEN Raise(403, "Not your job", DB)
    ELSE Commit(DB, OrderByCreatedAt({e \in Range(events) : e.tow_job_id = job_id}, FALSE))

-----------------------------------------------------------------------------
(* app/routers/admin.py                                                    *)

\* str(uuid.uuid4()) for the n-th user created.
NewUserId(n) == "user-" \o ToString(n)

\* Mutant: only the phones of active users are compared.
PhoneTaken_active_only(w, phone) ==
    \E o \in DOMAIN w.users : w.users[o].phone = phone /\ w.users[o].is_active

\* db.query(User).filter(User.phone == phone).first() finds a row.
PhoneTaken(w, phone) == \E o \in DOMAIN w.users : w.users[o].phone = phone

\* POST /admin/users
admin_create_user(token, payload) ==
    LET admin == require_roles({"ADMIN"}, token)
        phone == Strip(payload.phone)
    IN
    IF admin.code # 200 THEN Raise(admin.code, admin.detail, DB)
    ELSE IF phone = <<>> THEN Raise(400, "phone is required", DB)
    ELSE IF PhoneTaken(DB, phone)
         THEN Raise(409, "A user with this phone already exists", DB)
    ELSE
      LET id == NewUserId(Cardinality(DOMAIN users) - Cardinality(DOMAIN seed_users) + 1)
          user == [name |-> Strip(payload.name), phone |-> phone, role |-> payload.role,
                   password_hash |-> hash_password(payload.password),
                   is_active |-> payload.is_active]
          w1 == [DB EXCEPT !.users =
                    [u \in DOMAIN users \cup {id} |-> IF u = id THEN user ELSE users[u]]]
      IN Commit(w1, [id |-> id, user |-> user])

\* Mutant: only the deactivation of the own account is refused.
SelfLockoutError_role_unchecked(admin, user_id, payload) ==
    IF user_id = admin.id /\ payload.is_active # None /\ payload.is_active = Some(FALSE)
    THEN "You cannot deactivate your own account"
    ELSE ""

\* "safety: don't brick yourself": the detail of the 400, "" when the update
\* goes on.
SelfLockoutError(admin, user_id, payload) ==
    IF user_id # admin.id THEN ""
    ELSE IF payload.role # None /\ payload.role # Some("ADMIN")
         THEN "You cannot change your own role"
    ELSE IF payload.is_active # None /\ payload.is_active = Some(FALSE)
         THEN "You cannot deactivate your own account"
    ELSE ""

\* PATCH /admin/users/{user_id}
admin_update_user(token, user_id, payload) ==
    LET admin == require_roles({"ADMIN"}, token) IN
    IF admin.code # 200 THEN Raise(admin.code, admin.detail, DB)
    ELSE IF user_id \notin DOMAIN users THEN Raise(404, "User not found", DB)
    ELSE IF SelfLockoutError(admin, user_id, payload) # ""
         THEN Raise(400, SelfLockoutError(admin, user_id, payload), DB)
    ELSE IF payload.phone # None /\ Strip(payload.phone[1]) = <<>>
         THEN Raise(400, "phone cannot be blank", DB)
    ELSE IF /\ payload.phone # None
            /\ \E o \in DOMAIN users : o # user_id /\ users[o].phone = Strip(payload.phone[1])
         THEN Raise(409, "Another user already has this phone", DB)
    ELSE
      LET w1 == IF payload.phone # None
                THEN [DB EXCEPT !.users[user_id].phone = Strip(payload.phone[1])] ELSE DB
          w2 == IF payload.name # None
                THEN [w1 EXCEPT !.users[user_id].name = Strip(payload.name[1])] ELSE w1
          w3 == IF payload.role # None
                THEN [w2 EXCEPT !.users[user_id].role = payload.role[1]] ELSE w2
          w4 == IF payload.is_active # None
                THEN [w3 EXCEPT !.users[user_id].is_active = payload.is_active[1]] ELSE w3
      IN Commit(w4, w4.users[user_id])

\* POST /admin/users/{user_id}/reset-password
admin_reset_password(token, user_id, payload) ==
    LET admin == require_roles({"ADMIN"}, token) IN
    IF admin.code # 200 THEN Raise(admin.code, admin.detail, DB)
    ELSE IF user_id \notin DOMAIN users THEN Raise(404, "User not found", DB)
    ELSE IF user_id = admin.id THEN Raise(400, "You cannot reset your own password here", DB)
    ELSE Commit([DB EXCEPT !.users[user_id].password_hash = hash_password(payload.new_password)],
                [ok |-> TRUE])

\* _user_out, and the dictionary of list_users: the columns of a user that a
\* response carries.
_user_out(w, u) ==
    [id |-> u, name |-> w.users[u].name, phone |-> w.users[u].phone,
     role |-> w.users[u].role, is_active |-> w.users[u].is_active]

\* GET /admin/users.  The body is the set of the records returned; q is
\* matched against the name and the phone as a whole text.
admin_list_users(token, role, q) ==
    LET admin == require_roles({"ADMIN"}, token) IN
    IF admin.code # 200 THEN Raise(admin.code, admin.detail, DB)
    ELSE
      LET q1 == IF role # None THEN {u \in DOMAIN users : users[u].role = role[1]}
                ELSE DOMAIN users
          q2 == IF Truthy(q)
                THEN {u \in q1 : Strip(q[1]) \in {users[u].name, users[u].phone}}
                ELSE q1
      IN Commit(DB, {_user_out(DB, u) : u \in q2})

-----------------------------------------------------------------------------
(* app/routers/users.py                                                    *)

\* GET /users.  The body is the set of the records returned.
list_users(token, role) ==
    LET user == require_roles({"DISPATCHER", "ADMIN"}, token) IN
    IF user.code # 200 THEN Raise(user.code, user.detail, DB)
    ELSE IF Truthy(role)
    THEN IF role[1] \notin {<<ro>> : ro \in UserRole} THEN Raise(400, "Invalid role", DB)
         ELSE Commit(DB, {_user_out(DB, u) : u \in {x \in DOMAIN users : <<users[x].role>> = role[1]}})
    ELSE Commit(DB, {_user_out(DB, u) : u \in DOMAIN users})

-----------------------------------------------------------------------------
(* Requests.                                                               *)

TowJobCreatePayloads ==
    { [plate_number |-> <<" ", "abc123">>, location_lat |-> 2, location_lng |-> 45,
       location_accuracy_m |-> None, violation_type |-> None, notes |-> None],
      [plate_number |-> <<"xy9">>, location_lat |-> 9, location_lng |-> 44,
       location_accuracy_m |-> Some(5), violation_type |-> Some("NO_PARKING"),
       notes |-> Some(<<"blocking gate">>)],
      [plate_number |-> <<"xy9">>, location_lat |-> 91, location_lng |-> -181,
       location_accuracy_m |-> None, violation_type |-> None,
       notes |-> Some(<<" ", "plate unreadable", "\n">>)] }

\* A job id of the path: every stored job and one id that is not stored.
JobIdArgs == 1..(Len(jobs) + 1)

TowJobAssignPayloads == [driver_id : DOMAIN seed_users \cup {GhostId}]

\* An uploaded file: its content type, its length in bytes and whether
\* reading or writing it fails.
GoodPhoto == [content_type |-> "image/jpeg", size |-> 3, io_error |-> FALSE]

GoodPhotoForm ==
    [photo |-> GoodPhoto, photo_type |-> "AFTER", lat |-> None, lng |-> None,
     accuracy_m |-> None, captured_at |-> None]

PhotoForms ==
    { GoodPhotoForm,
      [GoodPhotoForm EXCEPT !.lat = Some(2), !.lng = Some(45), !.accuracy_m = Some(7),
                            !.captured_at = Some(<<"2026-01-19T12:00:00", "Z">>),
                            !.photo.size = MAX_UPLOAD_MB * 1024 * 1024],
      [GoodPhotoForm EXCEPT !.photo_type = "SELFIE"],
      [GoodPhotoForm EXCEPT !.photo.content_type = "application/pdf"],
      [GoodPhotoForm EXCEPT !.lat = Some(2)],
      [GoodPhotoForm EXCEPT !.lat = Some(91), !.lng = Some(45)],
      [GoodPhotoForm EXCEPT !.lat = Some(2), !.lng = Some(-181)],
      [GoodPhotoForm EXCEPT !.captured_at = Some(<<"yesterday">>)],
      [GoodPhotoForm EXCEPT !.photo.size = MAX_UPLOAD_MB * 1024 * 1024 + 1],
      [GoodPhotoForm EXCEPT !.photo.io_error = TRUE] }

JobForm ==
    [plate_number |-> <<"abc123", " ">>, job_lat |-> 2, job_lng |-> 45,
     job_accuracy_m |-> None, violation_type |-> None, notes |-> None]

\* The fields of both records in one form.
Merge(a, b) ==
    [k \in DOMAIN a \cup DOMAIN b |-> IF k \in DOMAIN a THEN a[k] ELSE b[k]]

SubmitEvidenceForms ==
    { Merge(JobForm, f) : f \in PhotoForms }
      \cup { Merge([JobForm EXCEPT !.plate_number = <<" ">>], GoodPhotoForm),
             Merge([JobForm EXCEPT !.job_lat = 91], GoodPhotoForm),
             Merge([JobForm EXCEPT !.job_lng = 181], GoodPhotoForm) }

PhotoIdArgs == 1..(Len(photos) + 1)

UserIdArgs == DOMAIN users \cup {GhostId}

NoUserUpdate == [name |-> None, phone |-> None, role |-> None, is_active |-> None]

AdminUserUpdatePayloads ==
    { [NoUserUpdate EXCEPT !.is_active = Some(FALSE)],
      [NoUserUpdate EXCEPT !.role = Some("DRIVER")],
      [NoUserUpdate EXCEPT !.phone = Some(<<" ", "+252634000001">>)],
      [NoUserUpdate EXCEPT !.phone = Some(<<"+252634000009">>),
                           !.name = Some(<<"Renamed", " ">>), !.role = Some("OFFICER")],
      [NoUserUpdate EXCEPT !.phone = Some(<<"+252634000009">>),
                           !.name = Some(<<"Renamed", " ">>), !.is_active = Some(FALSE)] }

AdminUserCreatePayloads ==
    { [name |-> <<"Driver Two">>, phone |-> <<" ", "+252634000002", " ">>, role |-> "DRIVER",
       password |-> "driver2pw", is_active |-> TRUE],
      [name |-> <<" ", "Driver Two">>, phone |-> <<"+252634000009", " ">>, role |-> "DRIVER",
       password |-> "driver2pw", is_active |-> TRUE],
      [name |-> <<"Nobody">>, phone |-> <<" ", " ">>, role |-> "OFFICER",
       password |-> "nobody123", is_active |-> TRUE] }

AdminPasswordResets == {[new_password |-> "changed123"]}

\* The query parameter role of GET /users: absent, a role, not a role.
RoleFilters == {None, Some(<<"DRIVER">>), Some(<<"CHIEF">>)}

\* The query parameters role and q of GET /admin/users.
AdminRoleFilters == {None, Some("DRIVER")}

SearchTexts == {None, Some(<<" ", "+252634000002">>)}

\* The query parameter status_filter: absent, a status, not a status.
StatusFilters == {None, Some(<<"NEW">>), Some(<<"TOWING">>)}

TowJobStatusUpdatePayloads ==
    [status : TowStatus, notes : {None}]
      \cup { [status |-> "EN_ROUTE", notes |-> Some(<<"heading to lot">>)],
             [status |-> "CLOSED", notes |-> Some(<<" ", "released to owner", " ">>)] }

-----------------------------------------------------------------------------
(* The state machine.                                                      *)

\* Two requests may be in flight at a time, each in a session of its own.
Sessions == {1, 2}

\* A session with no request: nothing loaded, nothing pending.
Idle ==
    [pc |-> "idle", op |-> "", token |-> "", job_id |-> 0, args |-> <<>>,
     base |-> <<>>, res |-> <<>>, begun_at |-> 0, seq |-> 0]

Init ==
    /\ users = seed_users
    /\ jobs = <<>>
    /\ events = <<>>
    /\ photos = <<>>
    /\ files = {}
    /\ now = 1
    /\ commits = 0
    /\ tally = <<>>
    /\ inflight = [s \in Sessions |-> Idle]

\* The committed state after the response r of operation op on job job_id.
\* Requests are taken until MaxCommits writes have been committed.  The rows
\* of one transaction get the time `now` (server_default=func.now()).
Respond(r, op, job_id) ==
    /\ commits < MaxCommits
    /\ users' = r.db.users
    /\ jobs' = r.db.jobs
    /\ events' = r.db.events
    /\ photos' = r.db.photos
    /\ files' = r.db.files
    /\ now' = now
    /\ commits' = IF r.db # DB THEN commits + 1 ELSE commits
    /\ tally' =
         IF r.code # 200 THEN tally
         ELSE IF op = "create" THEN Append(tally, [assignments |-> 0, status_updates |-> 0])
         ELSE IF op = "assign" THEN [tally EXCEPT ![job_id].assignments = @ + 1]
         ELSE IF op = "status" THEN [tally EXCEPT ![job_id].status_updates = @ + 1]
         ELSE tally
    /\ UNCHANGED inflight

CreateJob == \E t \in Tokens, p \in TowJobCreatePayloads : Respond(create_tow_job(t, p), "create", 0)

AssignDriver ==
    \E t \in Tokens, j \in JobIdArgs, p \in TowJobAssignPayloads :
        Respond(assign_driver(t, j, p), "assign", j)

UpdateStatus ==
    \E t \in Tokens, j \in JobIdArgs, p \in TowJobStatusUpdatePayloads :
        Respond(update_status(t, j, p), "status", j)

UploadPhoto ==
    \E t \in Tokens, j \in JobIdArgs, f \in PhotoForms :
        Respond(upload_job_photo(t, j, f), "photo", j)

SubmitEvidence ==
    \E t \in Tokens, f \in SubmitEvidenceForms : Respond(submit_evidence(t, f), "create", 0)

DownloadPhoto ==
    \E t \in Tokens, j \in JobIdArgs, ph \in PhotoIdArgs :
        Respond(download_job_photo(t, j, ph), "read", j)

GetEvidence == \E t \in Tokens, j \in JobIdArgs : Respond(get_job_evidence(t, j), "read", j)

GetEvents == \E t \in Tokens, j \in JobIdArgs : Respond(get_job_events(t, j), "read", j)

AdminUpdateUser ==
    \E t \in Tokens, u \in UserIdArgs, p \in AdminUserUpdatePayloads :
        Respond(admin_update_user(t, u, p), "user", 0)

AdminResetPassword ==
    \E t \in Tokens, u \in UserIdArgs, p \in AdminPasswordResets :
        Respond(admin_reset_password(t, u, p), "user", 0)

AdminListUsers ==
    \E t \in Tokens, ro \in AdminRoleFilters, q \in SearchTexts :
        Respond(admin_list_users(t, ro, q), "read", 0)

ListUsers == \E t \in Tokens, ro \in RoleFilters : Respond(list_users(t, ro), "read", 0)

\* The clock of the database server moves on between two requests.  A tick
\* is followed when a row carries the current time: the ticks before the next
\* row is written are one tick to every query.
Tick ==
    /\ commits < MaxCommits
    /\ \E e \in Range(events) : e.created_at = now
    /\ now' = now + 1
    /\ UNCHANGED <<users, jobs, events, photos, files, commits, tally, inflight>>

\* POST /tow-jobs/{job_id}/photos when the commit fails.
UploadPhotoCommitFails ==
    \E t \in Tokens, j \in JobIdArgs, f \in PhotoForms :
        /\ upload_job_photo(t, j, f).code = 200
        /\ Respond(CommitFails(upload_job_photo(t, j, f)), "photo", j)

\* POST /tow-jobs/submit-evidence when the commit fails.
SubmitEvidenceCommitFails ==
    \E t \in Tokens, f \in SubmitEvidenceForms :
        /\ submit_evidence(t, f).code = 200
        /\ Respond(CommitFails(submit_evidence(t, f)), "create", 0)

ListJobs == \E t \in Tokens, sf \in StatusFilters : Respond(list_tow_jobs(t, sf), "read", 0)

AdminCreateUser ==
    \E t \in Tokens, p \in AdminUserCreatePayloads : Respond(admin_create_user(t, p), "user", 0)

Next ==
    \/ CreateJob
    \/ AssignDriver
    \/ UpdateStatus
    \/ UploadPhoto
    \/ SubmitEvidence
    \/ DownloadPhoto
    \/ GetEvidence
    \/ GetEvents
    \/ AdminUpdateUser
    \/ AdminCreateUser
    \/ ListJobs
    \/ AdminResetPassword
    \/ AdminListUsers
    \/ ListUsers
    \/ UploadPhotoCommitFails
    \/ SubmitEvidenceCommitFails
    \/ Tick

Spec == Init /\ [][Next]_vars

-----------------------------------------------------------------------------
(* Requests in flight.  A handler reads its rows when it starts and writes *)
(* when it commits; between the two, the other session may read and        *)
(* commit.  There is no lock and no version column: a commit updates, in   *)
(* each row the session loaded, the columns the handler gave a new value,  *)
(* and inserts the rows the handler added.                                 *)

\* The second driver and the second administrator, as POST /admin/users
\* stores them.
race_users ==
    [u \in DOMAIN seed_users \cup {NewUserId(1), NewUserId(2)} |->
        IF u = NewUserId(1)
        THEN [name |-> <<"Driver Two">>, phone |-> <<"+252634000009">>, role |-> "DRIVER",
              password_hash |-> hash_password("driver2pw"), is_active |-> TRUE]
        ELSE IF u = NewUserId(2)
        THEN [name |-> <<"Admin Two">>, phone |-> <<"+252634000010">>, role |-> "ADMIN",
              password_hash |-> hash_password("admin2pw"), is_active |-> TRUE]
        ELSE seed_users[u]]

\* The job of officer1, as POST /tow-jobs stores it.
race_job ==
    [id |-> 1, plate_number |-> Upper(Strip(<<" ", "abc123">>)), officer_id |-> "officer1",
     status |-> "NEW", assigned_driver_id |-> None, violation_type |-> None,
     notes |-> None, location_lat |-> 2, location_lng |-> 45,
     location_accuracy_m |-> None, created_at |-> 1]

race_created ==
    [id |-> 1, tow_job_id |-> 1, actor_user_id |-> "officer1", event_type |-> "CREATED",
     message |-> <<"Job created for plate">> \o race_job.plate_number, created_at |-> 1]

race_assigned ==
    [id |-> 2, tow_job_id |-> 1, actor_user_id |-> "dispatcher1", event_type |-> "ASSIGNED",
     message |-> <<"Assigned to driver", "driver1">>, created_at |-> 2]

\* The requests in flight start on a database that holds six users and one
\* job, which is new or has been assigned to driver1.
InitRace ==
    /\ users = race_users
    /\ \E assigned \in BOOLEAN :
          /\ jobs = <<IF assigned THEN AssignTo(race_job, "driver1") ELSE race_job>>
          /\ events = IF assigned THEN <<race_created, race_assigned>> ELSE <<race_created>>
          /\ tally = <<[assignments |-> IF assigned THEN 1 ELSE 0, status_updates |-> 0]>>
    /\ photos = <<>>
    /\ files = {}
    /\ now = 3
    /\ commits = 0
    /\ inflight = [s \in Sessions |-> Idle]

RaceTokens == {"dispatcher1", "admin1", NewUserId(2), "driver1"}

RaceAssignPayloads == [driver_id : {"driver1", NewUserId(1)}]

RaceStatusPayloads ==
    { [status |-> "EN_ROUTE", notes |-> Some(<<"heading to lot">>)],
      [status |-> "CANCELLED", notes |-> None] }

RaceUserIds == {"admin1", NewUserId(2)}

RaceUserUpdatePayloads ==
    { [NoUserUpdate EXCEPT !.is_active = Some(FALSE)],
      [NoUserUpdate EXCEPT !.role = Some("DRIVER")] }

\* The handler of session s has read its rows and passed its checks: r is
\* what it is going to commit.  A handler that raises has written nothing.
Begin(s, r, op, token, job_id, args) ==
    /\ inflight[s].pc = "idle"
    /\ r.code = 200
    /\ inflight' = [inflight EXCEPT ![s] =
            [pc |-> "read", op |-> op, token |-> token, job_id |-> job_id, args |-> args,
             base |-> DB, res |-> r.db, begun_at |-> commits, seq |-> 0]]
    /\ UNCHANGED <<users, jobs, events, photos, files, now, commits, tally>>

BeginAssignDriver ==
    \E s \in Sessions, t \in RaceTokens, j \in JobIdArgs, p \in RaceAssignPayloads :
        Begin(s, assign_driver(t, j, p), "assign", t, j, p)

BeginUpdateStatus ==
    \E s \in Sessions, t \in RaceTokens, j \in JobIdArgs, p \in RaceStatusPayloads :
        Begin(s, update_status(t, j, p), "status", t, j, p)

BeginAdminUpdateUser ==
    \E s \in Sessions, t \in RaceTokens, u \in RaceUserIds, p \in RaceUserUpdatePayloads :
        Begin(s, admin_update_user(t, u, p), "user", t, 0, [user_id |-> u, payload |-> p])

\* The UPDATE of a row at commit: the columns whose value the handler
\* changed from the one it loaded are written, the others stay as they are
\* in the database.
flush_row(loaded, dirty, current) ==
    [c \in DOMAIN current |-> IF dirty[c] # loaded[c] THEN dirty[c] ELSE current[c]]

\* db.commit() of session s: its updates and its new events are written;
\* the events get the time of the insert.
CommitSession(s) ==
    LET u == inflight[s]
        added == Len(u.res.events) - Len(u.base.events)
    IN
    /\ u.pc = "read"
    /\ users' = [x \in DOMAIN users |->
                    IF x \in DOMAIN u.base.users
                    THEN flush_row(u.base.users[x], u.res.users[x], users[x])
                    ELSE users[x]]
    /\ jobs' = [k \in 1..Len(jobs) |->
                    IF k <= Len(u.base.jobs)
                    THEN flush_row(u.base.jobs[k], u.res.jobs[k], jobs[k])
                    ELSE jobs[k]]
    /\ events' = events \o
                    [k \in 1..added |->
                        [u.res.events[Len(u.base.events) + k]
                            EXCEPT !.id = Len(events) + k, !.created_at = now]]
    /\ commits' = commits + 1
    /\ tally' = IF u.op = "assign" THEN [tally EXCEPT ![u.job_id].assignments = @ + 1]
                 ELSE IF u.op = "status" THEN [tally EXCEPT ![u.job_id].status_updates = @ + 1]
                 ELSE tally
    /\ inflight' = [inflight EXCEPT ![s] = [u EXCEPT !.pc = "done", !.seq = commits + 1]]
    /\ UNCHANGED <<photos, files, now>>

CommitInFlight == \E s \in Sessions : CommitSession(s)

NextRace ==
    \/ BeginAssignDriver
    \/ BeginUpdateStatus
    \/ BeginAdminUpdateUser
    \/ CommitInFlight
    \/ Tick

SpecRace == InitRace /\ [][NextRace]_vars

-----------------------------------------------------------------------------
(* Properties.  A property of a request is stated over every reachable     *)
(* committed state and every request of the input sets, on the response    *)
(* the handler gives there.                                                *)

\* The users that get past authentication.
Callers == {u \in DOMAIN users : users[u].is_active}

JobIds == 1..Len(jobs)

\* The rule table of the access guard.
GuardRule(u, job) ==
    \/ users[u].role \in {"DISPATCHER", "ADMIN"}
    \/ users[u].role = "OFFICER" /\ u = job.officer_id
    \/ users[u].role = "DRIVER" /\ Some(u) = job.assigned_driver_id

\* C1: for every caller and every stored job, UpdateStatus, UploadPhoto,
\* DownloadPhoto, GetEvidence and GetEvents end with 403 exactly when the
\* caller is not DISPATCHER or ADMIN, not the OFFICER who owns the job and not
\* the DRIVER assigned to it.
C1_JobAccessGuard ==
    \A u \in Callers, j \in JobIds :
        LET denied == ~GuardRule(u, jobs[j]) IN
        /\ \A p \in TowJobStatusUpdatePayloads : (update_status(u, j, p).code = 403) <=> denied
        /\ \A f \in PhotoForms : (upload_job_photo(u, j, f).code = 403) <=> denied
        /\ \A ph \in PhotoIdArgs : (download_job_photo(u, j, ph).code = 403) <=> denied
        /\ (get_job_evidence(u, j).code = 403) <=> denied
        /\ (get_job_events(u, j).code = 403) <=> denied

\* A job created by the admin: the officer is refused, the dispatcher is not,
\* and the driver is served on a job assigned to them.
C1_Witness ==
    \E j \in JobIds :
        /\ jobs[j].officer_id = "admin1"
        /\ jobs[j].assigned_driver_id = Some("driver1")
        /\ "officer1" \in Callers /\ users["officer1"].role = "OFFICER"
        /\ get_job_events("officer1", j).code = 403
        /\ get_job_events("driver1", j).code = 200
        /\ get_job_events("dispatcher1", j).code = 200

\* C2: CreateJob and SubmitEvidence succeed only for OFFICER and ADMIN callers,
\* AssignDriver only for DISPATCHER and ADMIN callers; a caller of another role
\* gets 403 and the job, photo and event rows stay as they were.
C2_RoleGates ==
    \A u \in Callers :
        LET creator == users[u].role \in {"OFFICER", "ADMIN"}
            assigner == users[u].role \in {"DISPATCHER", "ADMIN"}
            Refused(r) == /\ r.code = 403
                          /\ r.db.jobs = jobs /\ r.db.photos = photos /\ r.db.events = events
            Gate(r, allowed) == (r.code = 200 => allowed) /\ (~allowed => Refused(r))
        IN
        /\ \A p \in TowJobCreatePayloads : Gate(create_tow_job(u, p), creator)
        /\ \A f \in SubmitEvidenceForms : Gate(submit_evidence(u, f), creator)
        /\ \A j \in JobIdArgs, p \in TowJobAssignPayloads : Gate(assign_driver(u, j, p), assigner)

\* With a job stored: the driver is refused creation, the officer is refused
\* assignment, and both operations succeed for the admin.
C2_Witness ==
    \E j \in JobIds, p \in TowJobCreatePayloads, f \in SubmitEvidenceForms :
        /\ users["driver1"].role = "DRIVER" /\ "driver1" \in Callers
        /\ create_tow_job("driver1", p).code = 403
        /\ submit_evidence("driver1", f).code = 403
        /\ users["officer1"].role = "OFFICER" /\ "officer1" \in Callers
        /\ assign_driver("officer1", j, [driver_id |-> "driver1"]).code = 403
        /\ create_tow_job("admin1", p).code = 200
        /\ assign_driver("admin1", j, [driver_id |-> "driver1"]).code = 200

\* r.db is the committed state with exactly one job appended.
OneJobAdded(r) ==
    /\ Len(r.db.jobs) = Len(jobs) + 1
    /\ SubSeq(r.db.jobs, 1, Len(jobs)) = jobs

\* r.db holds the committed events followed by n new ones.
EventsAdded(r, n) ==
    /\ Len(r.db.events) = Len(events) + n
    /\ SubSeq(r.db.events, 1, Len(events)) = events

\* C3: a successful CreateJob commits one new job with status NEW, the caller
\* as officer_id and no assigned driver, and exactly one event, of type CREATED,
\* for that job with the caller as actor.
C3_CreateJob ==
    \A t \in Tokens, p \in TowJobCreatePayloads :
        LET r == create_tow_job(t, p)
            job == r.db.jobs[Len(r.db.jobs)]
            ev == r.db.events[Len(r.db.events)]
        IN r.code = 200 =>
            /\ OneJobAdded(r)
            /\ job.status = "NEW"
            /\ job.officer_id = t
            /\ job.assigned_driver_id = None
            /\ \A j \in JobIds : jobs[j].id # job.id
            /\ EventsAdded(r, 1)
            /\ ev.event_type = "CREATED"
            /\ ev.tow_job_id = job.id
            /\ ev.actor_user_id = t
            /\ r.db.photos = photos /\ r.db.users = users

\* A committed job made by CreateJob, with its CREATED event, while another
\* job is already stored.
C3_Witness ==
    /\ Len(jobs) = 2
    /\ \E e \in Range(events) :
          /\ e.tow_job_id = 2
          /\ e.event_type = "CREATED"
          /\ e.message[1] = "Job created for plate"
          /\ e.actor_user_id = jobs[2].officer_id
    /\ jobs[2].status = "NEW"

\* r.db.jobs is the committed job table with row j replaced by `row`.
OnlyJobChanged(r, j, row) ==
    /\ Len(r.db.jobs) = Len(jobs)
    /\ \A k \in JobIds : r.db.jobs[k] = IF k = j THEN row ELSE jobs[k]

\* C4: a successful AssignDriver(job, driver) sets assigned_driver_id to the
\* driver and status to ASSIGNED and appends exactly one event, of type ASSIGNED,
\* for the job, from every prior status and prior driver; the other columns of
\* the job (officer_id, plate, location among them) and the other jobs stay.
C4_AssignDriver ==
    \A t \in Tokens, j \in JobIdArgs, p \in TowJobAssignPayloads :
        LET r == assign_driver(t, j, p)
            ev == r.db.events[Len(r.db.events)]
        IN r.code = 200 =>
            /\ OnlyJobChanged(r, j, [jobs[j] EXCEPT !.assigned_driver_id = Some(p.driver_id),
                                                    !.status = "ASSIGNED"])
            /\ EventsAdded(r, 1)
            /\ ev.event_type = "ASSIGNED"
            /\ ev.tow_job_id = j
            /\ ev.actor_user_id = t

\* A job closed by a committed status update, on which an assignment succeeds
\* and sets ASSIGNED.
C4_Witness ==
    \E j \in JobIds :
        /\ jobs[j].status = "CLOSED"
        /\ tally[j].status_updates = 1
        /\ LET r == assign_driver("dispatcher1", j, [driver_id |-> "driver1"]) IN
             /\ r.code = 200
             /\ r.db.jobs[j].status = "ASSIGNED"
             /\ r.db.jobs[j].assigned_driver_id = Some("driver1")

\* d is the id of a stored, active user of role DRIVER.
ActiveDriver(d) == d \in DOMAIN users /\ users[d].role = "DRIVER" /\ users[d].is_active

\* C5: for a DISPATCHER or ADMIN caller, AssignDriver ends with 404 when the job
\* is not stored, and with 400 when the job is stored and the driver id is not
\* stored, is not a DRIVER or is inactive; a failed AssignDriver leaves every
\* job (assigned_driver_id and status among its columns) and the events as
\* they were.
C5_AssignDriverFails ==
    \A t \in Tokens, j \in JobIdArgs, p \in TowJobAssignPayloads :
        LET r == assign_driver(t, j, p) IN
        /\ (t \in Callers /\ users[t].role \in {"DISPATCHER", "ADMIN"}) =>
              /\ j \notin JobIds => r.code = 404
              /\ (j \in JobIds /\ ~ActiveDriver(p.driver_id)) => r.code = 400
        /\ r.code # 200 => r.db.jobs = jobs /\ r.db.events = events

\* A stored job, and an assignment refused for each reason: an inactive
\* driver, a user who is no driver, an id of no user, a job that is not stored.
C5_Witness ==
    \E j \in JobIds :
        /\ users["driver1"].role = "DRIVER" /\ ~users["driver1"].is_active
        /\ assign_driver("dispatcher1", j, [driver_id |-> "driver1"]).code = 400
        /\ assign_driver("dispatcher1", j, [driver_id |-> "officer1"]).code = 400
        /\ assign_driver("dispatcher1", j, [driver_id |-> GhostId]).code = 400
        /\ assign_driver("dispatcher1", Len(jobs) + 1, [driver_id |-> "driver1"]).code = 404

\* C6: a successful UpdateStatus appends exactly one event, of type
\* STATUS_CHANGED, for the job, and its message starts "Status <old> -> <new>"
\* with the job's status before the call and the status of the request, also
\* when the two are equal.
C6_StatusChangedEvent ==
    \A t \in Tokens, j \in JobIdArgs, p \in TowJobStatusUpdatePayloads :
        LET r == update_status(t, j, p)
            ev == r.db.events[Len(r.db.events)]
        IN r.code = 200 =>
            /\ EventsAdded(r, 1)
            /\ ev.event_type = "STATUS_CHANGED"
            /\ ev.tow_job_id = j
            /\ ev.actor_user_id = t
            /\ Len(ev.message) >= 4
            /\ SubSeq(ev.message, 1, 4) = <<"Status", jobs[j].status, "->", p.status>>

\* A committed STATUS_CHANGED event of an update that kept the status.
C6_Witness ==
    \E i \in 1..Len(events) :
        /\ events[i].event_type = "STATUS_CHANGED"
        /\ events[i].message[2] = events[i].message[4]
        /\ tally[events[i].tow_job_id].status_updates = 1

\* The edges of the status state machine.
StatusEdges ==
    { <<"NEW", "ASSIGNED">>, <<"ASSIGNED", "EN_ROUTE">>, <<"EN_ROUTE", "ARRIVED">>,
      <<"ARRIVED", "TOWED">>, <<"TOWED", "CLOSED">> }
      \cup { <<s, "CANCELLED">> : s \in TowStatus \ {"CLOSED", "CANCELLED"} }

\* C7: the status of a job changes only along an edge of the state machine;
\* in particular a status of CLOSED or CANCELLED never changes again.
C7_StatusFollowsEdges ==
    [][\A j \in JobIds :
          jobs'[j].status # jobs[j].status =>
              <<jobs[j].status, jobs'[j].status>> \in StatusEdges]_vars

\* C8: UpdateStatus by a caller that passes the access guard succeeds whatever
\* the current and the requested status are, and sets the status to the
\* requested one.
C8_AnyStatusToAny ==
    \A u \in Callers, j \in JobIds, p \in TowJobStatusUpdatePayloads :
        LET r == update_status(u, j, p) IN
        GuardRule(u, jobs[j]) => r.code = 200 /\ r.db.jobs[j].status = p.status

\* A job taken from NEW to CLOSED by one committed update, on which every
\* status can be requested with success.
C8_Witness ==
    \E j \in JobIds :
        /\ jobs[j].status = "CLOSED"
        /\ \E i \in 1..Len(events) :
              /\ events[i].tow_job_id = j /\ events[i].event_type = "STATUS_CHANGED"
              /\ events[i].message[2] = "NEW" /\ events[i].message[4] = "CLOSED"
        /\ \A s \in TowStatus :
              LET r == update_status("officer1", j, [status |-> s, notes |-> None]) IN
              r.code = 200 /\ r.db.jobs[j].status = s

\* C9: every committed event stays in the table, in its place and with the
\* same columns: each step leaves the events as they were or appends to them.
C9_EventsAppendOnly ==
    [][/\ Len(events') >= Len(events)
       /\ SubSeq(events', 1, Len(events)) = events]_vars

\* Two committed events of one job.
C9_Witness ==
    /\ Len(events) = 2
    /\ events[1].tow_job_id = events[2].tow_job_id
    /\ events[2].event_type = "STATUS_CHANGED"

EventsOf(j, type) == {i \in 1..Len(events) : events[i].tow_job_id = j /\ events[i].event_type = type}

PhotosOf(j) == {i \in 1..Len(photos) : photos[i].tow_job_id = j}

\* Every event is of a stored job and of one of the four types.
EventCounts ==
    /\ Len(tally) = Len(jobs)
    /\ \A i \in 1..Len(events) :
          /\ events[i].tow_job_id \in JobIds
          /\ events[i].event_type \in {"CREATED", "ASSIGNED", "STATUS_CHANGED", "PHOTO_UPLOADED"}
    /\ \A j \in JobIds :
          /\ Cardinality(EventsOf(j, "CREATED")) = 1
          /\ Cardinality(EventsOf(j, "ASSIGNED")) = tally[j].assignments
          /\ Cardinality(EventsOf(j, "STATUS_CHANGED")) = tally[j].status_updates
          /\ Cardinality(EventsOf(j, "PHOTO_UPLOADED")) = Cardinality(PhotosOf(j))
          /\ Cardinality({i \in 1..Len(events) : events[i].tow_job_id = j})
                = 1 + tally[j].assignments + tally[j].status_updates + Cardinality(PhotosOf(j))

\* A step that adds a job, changes a job or adds a photo adds an event of
\* that job.
ChangeLogged ==
    /\ \A j \in 1..Len(jobs') :
          (j \notin JobIds \/ jobs'[j] # jobs[j]) =>
              \E i \in (Len(events) + 1)..Len(events') : events'[i].tow_job_id = j
    /\ \A k \in (Len(photos) + 1)..Len(photos') :
          \E i \in (Len(events) + 1)..Len(events') :
              /\ events'[i].tow_job_id = photos'[k].tow_job_id
              /\ events'[i].event_type = "PHOTO_UPLOADED"

\* C10: each job has one CREATED event, one ASSIGNED event per successful
\* assignment, one STATUS_CHANGED event per successful status update and one
\* PHOTO_UPLOADED event per photo record, and no others; and no step changes a
\* job row or adds a photo without adding an event of that job.
C10_EveryChangeHasItsEvent == []EventCounts /\ [][ChangeLogged]_vars

\* A job with an event of each type.
C10_Witness ==
    \E j \in JobIds :
        /\ tally[j].status_updates = 1
        /\ Cardinality(PhotosOf(j)) = 1
        /\ Cardinality(EventsOf(j, "STATUS_CHANGED")) = 1
        /\ Cardinality(EventsOf(j, "PHOTO_UPLOADED")) = 1

-----------------------------------------------------------------------------
(* Referential integrity of jobs.                                          *)

\* C11: in every reachable state each job's officer_id is the id of a stored
\* user of role OFFICER or ADMIN, and each job's assigned_driver_id, when set,
\* is the id of a stored, active user of role DRIVER.
C11_JobReferences ==
    \A j \in JobIds :
        /\ jobs[j].officer_id \in DOMAIN users
        /\ users[jobs[j].officer_id].role \in {"OFFICER", "ADMIN"}
        /\ jobs[j].assigned_driver_id # None => ActiveDriver(jobs[j].assigned_driver_id[1])

-----------------------------------------------------------------------------
(* SubmitEvidence.                                                         *)

\* The forms whose photo cannot be written: over the size limit, or an I/O error.
PhotoWriteFails(f) == f.photo.io_error \/ f.photo.size > MAX_UPLOAD_MB * 1024 * 1024

\* The jobs whose CREATED event was written by SubmitEvidence.
EvidenceJobs ==
    {e.tow_job_id : e \in {x \in Range(events) :
        x.event_type = "CREATED"
        /\ x.message[1] = "Job created via submit-evidence for plate"}}

\* C12: a successful SubmitEvidence commits one NEW job, one photo record of
\* that job, one CREATED and one PHOTO_UPLOADED event of that job, together; a
\* SubmitEvidence that fails (the photo write over the size limit or with an
\* I/O error among the causes) commits no job, no photo record and no event;
\* and every job created by SubmitEvidence has a photo record.
C12_SubmitEvidenceAtomic ==
    /\ \A t \in Tokens, f \in SubmitEvidenceForms :
          LET r == submit_evidence(t, f)
              n == Len(r.db.events)
          IN
          /\ r.code = 200 =>
                /\ OneJobAdded(r)
                /\ r.db.jobs[Len(jobs) + 1].status = "NEW"
                /\ Len(r.db.photos) = Len(photos) + 1
                /\ SubSeq(r.db.photos, 1, Len(photos)) = photos
                /\ r.db.photos[Len(photos) + 1].tow_job_id = Len(jobs) + 1
                /\ r.db.photos[Len(photos) + 1].file_path \in r.db.files
                /\ EventsAdded(r, 2)
                /\ r.db.events[n - 1].event_type = "CREATED"
                /\ r.db.events[n - 1].tow_job_id = Len(jobs) + 1
                /\ r.db.events[n].event_type = "PHOTO_UPLOADED"
                /\ r.db.events[n].tow_job_id = Len(jobs) + 1
          /\ r.code # 200 =>
                r.db.jobs = jobs /\ r.db.photos = photos /\ r.db.events = events
          /\ PhotoWriteFails(f) => r.code # 200
    /\ \A j \in EvidenceJobs : PhotosOf(j) # {}

\* A job committed by SubmitEvidence with its photo and both events, in a
\* state where a SubmitEvidence whose photo is too large ends with 413 and one
\* whose photo write fails ends with 500.
C12_Witness ==
    /\ \E j \in EvidenceJobs :
          /\ PhotosOf(j) # {}
          /\ EventsOf(j, "PHOTO_UPLOADED") # {}
    /\ \E f \in SubmitEvidenceForms :
          f.photo.size > MAX_UPLOAD_MB * 1024 * 1024 /\ submit_evidence("officer1", f).code = 413
    /\ \E f \in SubmitEvidenceForms :
          f.photo.io_error /\ submit_evidence("officer1", f).code = 500

-----------------------------------------------------------------------------
(* Photo location.                                                         *)

\* lat and lng are both absent, or both present and in range.
GeoPairOk(lat, lng) ==
    \/ lat = None /\ lng = None
    \/ /\ lat # None /\ lng # None
       /\ -90 <= lat[1] /\ lat[1] <= 90
       /\ -180 <= lng[1] /\ lng[1] <= 180

\* C13: every stored photo record has lat and lng both present or both absent
\* and, when present, lat in [-90, 90] and lng in [-180, 180]; an UploadPhoto
\* or SubmitEvidence request with one of the pair only, or with a value out of
\* range, does not succeed and leaves rows and files as they were, and ends
\* with 400 when the caller may act and the other fields are valid.
C13_PhotoGeo ==
    /\ \A k \in 1..Len(photos) : GeoPairOk(photos[k].lat, photos[k].lng)
    /\ \A t \in Tokens, j \in JobIdArgs, f \in PhotoForms :
          LET r == upload_job_photo(t, j, f) IN
          ~GeoPairOk(f.lat, f.lng) =>
              /\ r.code # 200 /\ r.db = DB
              /\ (t \in Callers /\ j \in JobIds /\ GuardRule(t, jobs[j])
                    /\ f.photo_type \in allowed_types /\ f.photo.content_type \in allowed_ct)
                  => r.code = 400
    /\ \A t \in Tokens, f \in SubmitEvidenceForms :
          LET r == submit_evidence(t, f) IN
          ~GeoPairOk(f.lat, f.lng) =>
              /\ r.code # 200 /\ r.db = DB
              /\ (t \in Callers /\ users[t].role \in {"OFFICER", "ADMIN"}
                    /\ Strip(f.plate_number) # <<>>
                    /\ -90 <= f.job_lat /\ f.job_lat <= 90
                    /\ -180 <= f.job_lng /\ f.job_lng <= 180)
                  => r.code = 400

\* A stored photo with a location, on a job where an upload with lat only,
\* one with lat 91 and one with lng -181 each end with 400.
C13_Witness ==
    \E k \in 1..Len(photos) :
        /\ photos[k].lat # None /\ photos[k].lng # None
        /\ \A f \in PhotoForms :
              ~GeoPairOk(f.lat, f.lng) =>
                  upload_job_photo("admin1", photos[k].tow_job_id, f).code = 400
        /\ \E f \in PhotoForms : f.lat # None /\ f.lng = None
        /\ \E f \in PhotoForms : f.lat = Some(91)
        /\ \E f \in PhotoForms : f.lng = Some(-181)
        /\ \E f \in SubmitEvidenceForms :
              f.lng = Some(-181) /\ submit_evidence("admin1", f).code = 400

-----------------------------------------------------------------------------
(* Job location.                                                           *)

JobGeoOk(lat, lng) == -90 <= lat /\ lat <= 90 /\ -180 <= lng /\ lng <= 180

\* C14: every committed job has location_lat in [-90, 90] and location_lng in
\* [-180, 180], whether CreateJob or SubmitEvidence made it; a creation request
\* with a job latitude or longitude out of range does not succeed and creates
\* no job.
C14_JobGeoInRange ==
    /\ \A j \in JobIds : JobGeoOk(jobs[j].location_lat, jobs[j].location_lng)
    /\ \A t \in Tokens, p \in TowJobCreatePayloads :
          LET r == create_tow_job(t, p) IN
          ~JobGeoOk(p.location_lat, p.location_lng) => r.code # 200 /\ r.db.jobs = jobs
    /\ \A t \in Tokens, f \in SubmitEvidenceForms :
          LET r == submit_evidence(t, f) IN
          ~JobGeoOk(f.job_lat, f.job_lng) => r.code # 200 /\ r.db.jobs = jobs

-----------------------------------------------------------------------------
(* Upload ceiling.                                                         *)

\* The configured maximum, in bytes.
MaxBytes == MAX_UPLOAD_MB * 1024 * 1024

\* Lengths of uploads: empty, small, around one chunk, around the maximum.
UploadSizes ==
    {0, 1, 3, ChunkBytes - 1, ChunkBytes, ChunkBytes + 1,
     MaxBytes - ChunkBytes, MaxBytes - 1, MaxBytes, MaxBytes + 1,
     MaxBytes + ChunkBytes, 2 * MaxBytes + 1}

\* C15: streaming an upload of n bytes succeeds and reports size n exactly when
\* n is at most the configured maximum, n equal to the maximum included; for n
\* above the maximum, the maximum plus one included, it fails with 413 and the
\* file it was writing is not on disk afterwards.
C15_UploadCeiling ==
    \A n \in UploadSizes :
        LET r == save_upload_streaming(DB, [content_type |-> "image/png", size |-> n,
                                            io_error |-> FALSE])
        IN
        /\ n <= MaxBytes =>
              /\ r.code = 200 /\ r.size_bytes = n
              /\ r.w.files = files \cup {r.path} /\ r.path \notin files
        /\ n > MaxBytes =>
              /\ r.code = 413
              /\ r.path \notin r.w.files /\ r.w.files = files
        /\ (r.code = 200) <=> (n <= MaxBytes)

\* A committed photo of exactly the maximum size with its file on disk, in a
\* state where an upload of one byte more ends with 413 and adds no file.
C15_Witness ==
    \E k \in 1..Len(photos) :
        /\ photos[k].size_bytes = MaxBytes
        /\ photos[k].file_path \in files
        /\ LET r == upload_job_photo("admin1", photos[k].tow_job_id,
                         [GoodPhotoForm EXCEPT !.photo.size = MaxBytes + 1])
           IN r.code = 413 /\ r.db.files = files /\ r.db.photos = photos

-----------------------------------------------------------------------------
(* Users.                                                                  *)

\* The phone is held by a stored user other than `except`.
PhoneHeldByOther(phone, except) ==
    \E o \in DOMAIN users : o # except /\ users[o].phone = phone

\* The update is refused as a self-lockout before the phone is looked at.
SelfLockout(t, u, p) ==
    u = t /\ (p.role \notin {None, Some("ADMIN")} \/ p.is_active = Some(FALSE))

\* C16: no two stored users have the same phone; creating a user whose trimmed
\* phone is the phone of a stored user ends with 409, updating a user's phone
\* to the phone of another stored user ends with 409 (for an ADMIN caller and a
\* request that is not refused earlier), and in both cases the user table
\* stays as it was.
C16_PhoneUnique ==
    /\ \A a, b \in DOMAIN users : a # b => users[a].phone # users[b].phone
    /\ \A t \in Tokens, p \in AdminUserCreatePayloads :
          LET r == admin_create_user(t, p) IN
          PhoneHeldByOther(Strip(p.phone), GhostId) =>
              /\ r.code # 200 /\ r.db.users = users
              /\ (t \in Callers /\ users[t].role = "ADMIN") => r.code = 409
    /\ \A t \in Tokens, u \in UserIdArgs, p \in AdminUserUpdatePayloads :
          LET r == admin_update_user(t, u, p) IN
          (p.phone # None /\ PhoneHeldByOther(Strip(p.phone[1]), u)) =>
              /\ r.code # 200 /\ r.db.users = users
              /\ (t \in Callers /\ users[t].role = "ADMIN" /\ u \in DOMAIN users
                    /\ ~SelfLockout(t, u, p)) => r.code = 409

\* A user created by the admin holds a new phone: creating a second user with
\* that phone (sent with blanks around it) ends with 409, and so does updating
\* another user to it or to the phone of the officer.
C16_Witness ==
    /\ NewUserId(1) \in DOMAIN users
    /\ \E p \in AdminUserCreatePayloads :
          /\ p.phone # Strip(p.phone)
          /\ Strip(p.phone) = users[NewUserId(1)].phone
          /\ admin_create_user("admin1", p).code = 409
    /\ \E p \in AdminUserUpdatePayloads :
          /\ p.phone # None /\ Strip(p.phone[1]) = users[NewUserId(1)].phone
          /\ admin_update_user("admin1", "driver1", p).code = 409
    /\ \E p \in AdminUserUpdatePayloads :
          /\ p.phone # None /\ Strip(p.phone[1]) = users["officer1"].phone
          /\ admin_update_user("admin1", "driver1", p).code = 409
          /\ admin_update_user("admin1", "officer1", p).code = 200

\* C17: an update by an admin of their own record that sets is_active to false,
\* or role to anything but ADMIN, ends with 400 and leaves the record as it
\* was, a phone or name sent in the same request included.
C17_NoSelfLockout ==
    \A t \in Callers, p \in AdminUserUpdatePayloads :
        LET r == admin_update_user(t, t, p) IN
        (users[t].role = "ADMIN" /\ (p.is_active = Some(FALSE) \/ p.role \notin {None, Some("ADMIN")}))
            => r.code = 400 /\ r.db.users[t] = users[t] /\ r.db.users = users

\* The admin has renamed another user and given them a new phone; the same
\* request on the admin's own record, with a role or a deactivation, ends with
\* 400, and the admin's record is the one of the seed.
C17_Witness ==
    /\ \E u \in DOMAIN users : u # "admin1" /\ users[u].name = <<"Renamed">>
    /\ users["admin1"] = seed_users["admin1"]
    /\ \E p \in AdminUserUpdatePayloads :
          /\ p.name # None /\ p.phone # None /\ p.role = Some("OFFICER")
          /\ admin_update_user("admin1", "admin1", p).code = 400
    /\ \E p \in AdminUserUpdatePayloads :
          /\ p.name # None /\ p.phone # None /\ p.is_active = Some(FALSE)
          /\ admin_update_user("admin1", "admin1", p).code = 400

-----------------------------------------------------------------------------
(* Listings.                                                               *)

\* The jobs in the scope of caller u.
Scope(u) ==
    IF users[u].role = "OFFICER" THEN {job \in Range(jobs) : job.officer_id = u}
    ELSE IF users[u].role = "DRIVER" THEN {job \in Range(jobs) : job.assigned_driver_id = Some(u)}
    ELSE Range(jobs)

\* C18: ListJobs returns exactly the jobs in the caller's scope (OFFICER: the
\* jobs whose officer_id is the caller; DRIVER: the jobs assigned to the
\* caller; DISPATCHER and ADMIN: all jobs), ordered by creation time
\* descending, and the committed rows admit one result only, so that two
\* listings with no write between them return the same sequence, also when
\* several jobs have the same creation time.
C18_ListJobsScopedStable ==
    \A u \in Callers :
        LET r == list_tow_jobs(u, None) IN
        /\ r.code = 200
        /\ r.db = DB
        /\ \A s \in r.body :
              /\ Range(s) = Scope(u)
              /\ Len(s) = Cardinality(Scope(u))
              /\ \A i \in 1..(Len(s) - 1) : s[i].created_at >= s[i + 1].created_at
        /\ \A s1, s2 \in r.body : s1 = s2

\* C19: GetEvents returns the events of a job in the order in which they were
\* appended: an event appended earlier never comes after one appended later,
\* and the CREATED event is first, also for the CREATED and PHOTO_UPLOADED
\* events that SubmitEvidence writes in one commit.
C19_EventsOldestFirst ==
    \A u \in Callers, j \in JobIds :
        LET r == get_job_events(u, j) IN
        r.code = 200 =>
            \A s \in r.body :
                /\ Range(s) = {e \in Range(events) : e.tow_job_id = j}
                /\ \A i \in 1..(Len(s) - 1) : s[i].id < s[i + 1].id
                /\ s[1].event_type = "CREATED"

-----------------------------------------------------------------------------
(* Authorisation against the stored user.                                  *)

\* The response r is a 401 that commits nothing and writes no file.
Unauthenticated(r) == r.code = 401 /\ r.db = DB

\* C20: a request whose token has a subject that is not stored, or is stored
\* with the active flag false, ends with 401 and changes nothing, whatever the
\* operation and also with a token issued while the user was active; and the
\* role gates decide on the role stored for the subject at the time of the
\* request, not on the role in the token.
C20_AuthAgainstStoredUser ==
    /\ \A t \in Tokens \ {NoCreds, BadToken} :
          (t \notin DOMAIN users \/ ~users[t].is_active) =>
              /\ \A p \in TowJobCreatePayloads : Unauthenticated(create_tow_job(t, p))
              /\ \A sf \in StatusFilters : Unauthenticated(list_tow_jobs(t, sf))
              /\ \A f \in SubmitEvidenceForms : Unauthenticated(submit_evidence(t, f))
              /\ \A u \in UserIdArgs, p \in AdminUserUpdatePayloads :
                    Unauthenticated(admin_update_user(t, u, p))
              /\ \A p \in AdminUserCreatePayloads : Unauthenticated(admin_create_user(t, p))
              /\ \A j \in JobIdArgs :
                    /\ \A p \in TowJobAssignPayloads : Unauthenticated(assign_driver(t, j, p))
                    /\ \A p \in TowJobStatusUpdatePayloads : Unauthenticated(update_status(t, j, p))
                    /\ \A f \in PhotoForms : Unauthenticated(upload_job_photo(t, j, f))
                    /\ \A ph \in PhotoIdArgs : Unauthenticated(download_job_photo(t, j, ph))
                    /\ Unauthenticated(get_job_evidence(t, j))
                    /\ Unauthenticated(get_job_events(t, j))
    /\ \A t \in Callers :
          LET role == users[t].role IN
          /\ \A p \in TowJobCreatePayloads :
                (create_tow_job(t, p).code = 403) <=> (role \notin {"OFFICER", "ADMIN"})
          /\ \A f \in SubmitEvidenceForms :
                (submit_evidence(t, f).code = 403) <=> (role \notin {"OFFICER", "ADMIN"})
          /\ \A j \in JobIdArgs, p \in TowJobAssignPayloads :
                (assign_driver(t, j, p).code = 403) <=> (role \notin {"DISPATCHER", "ADMIN"})
          /\ \A u \in UserIdArgs, p \in AdminUserUpdatePayloads :
                (admin_update_user(t, u, p).code = 403) <=> (role # "ADMIN")
          /\ \A p \in AdminUserCreatePayloads :
                (admin_create_user(t, p).code = 403) <=> (role # "ADMIN")
          /\ \A j \in JobIds, p \in TowJobStatusUpdatePayloads :
                (update_status(t, j, p).code = 403) <=> ~GuardRule(t, jobs[j])
          /\ \A s \in list_tow_jobs(t, None).body : Range(s) = Scope(t)

\* The driver has been deactivated and the officer made a DRIVER after their
\* tokens were issued: the driver's next request ends with 401, and the
\* officer, whose token says OFFICER, is refused the creation of a job.
C20_Witness ==
    /\ TokenRole("driver1") = "DRIVER" /\ ~users["driver1"].is_active
    /\ \A sf \in StatusFilters : list_tow_jobs("driver1", sf).code = 401
    /\ TokenRole("officer1") = "OFFICER" /\ users["officer1"].role = "DRIVER"
    /\ users["officer1"].is_active
    /\ \A p \in TowJobCreatePayloads : create_tow_job("officer1", p).code = 403
    /\ list_tow_jobs("officer1", None).code = 200

-----------------------------------------------------------------------------
(* User administration.                                                    *)

\* The response r gives no user record and changes no user.
NoUserAccess(r) == r.code = 403 /\ r.body = None /\ r.db.users = users

\* C21: listing, creating and updating users and resetting passwords are for
\* ADMIN callers only: a caller of role OFFICER, DRIVER or DISPATCHER gets no
\* user record and changes none, through GET /users, GET /admin/users,
\* POST /admin/users, PATCH /admin/users/{id} and the password reset.
C21_UsersAdminOnly ==
    \A t \in Callers :
        users[t].role # "ADMIN" =>
            /\ \A ro \in RoleFilters : NoUserAccess(list_users(t, ro))
            /\ \A ro \in AdminRoleFilters, q \in SearchTexts :
                  NoUserAccess(admin_list_users(t, ro, q))
            /\ \A p \in AdminUserCreatePayloads : NoUserAccess(admin_create_user(t, p))
            /\ \A u \in UserIdArgs, p \in AdminUserUpdatePayloads :
                  NoUserAccess(admin_update_user(t, u, p))
            /\ \A u \in UserIdArgs, p \in AdminPasswordResets :
                  NoUserAccess(admin_reset_password(t, u, p))

-----------------------------------------------------------------------------
(* Errors.                                                                 *)

\* The codes of authentication, authorisation, not-found, validation, conflict
\* and payload-too-large errors.
RefusalCodes == {400, 401, 403, 404, 409, 413}

\* The response r is no refusal, or it leaves rows and files as they were.
Untouched(r) == r.code \in RefusalCodes => r.db = DB

\* C22: a request that ends with an authentication, authorisation, not-found,
\* validation, conflict or payload-too-large error leaves the user, job, photo
\* and event rows and the files under the upload root as they were.
C22_RefusalChangesNothing ==
    \A t \in Tokens :
        /\ \A p \in TowJobCreatePayloads : Untouched(create_tow_job(t, p))
        /\ \A sf \in StatusFilters : Untouched(list_tow_jobs(t, sf))
        /\ \A f \in SubmitEvidenceForms : Untouched(submit_evidence(t, f))
        /\ \A j \in JobIdArgs :
              /\ \A p \in TowJobAssignPayloads : Untouched(assign_driver(t, j, p))
              /\ \A p \in TowJobStatusUpdatePayloads : Untouched(update_status(t, j, p))
              /\ \A f \in PhotoForms : Untouched(upload_job_photo(t, j, f))
              /\ \A ph \in PhotoIdArgs : Untouched(download_job_photo(t, j, ph))
              /\ Untouched(get_job_evidence(t, j))
              /\ Untouched(get_job_events(t, j))
        /\ \A p \in AdminUserCreatePayloads : Untouched(admin_create_user(t, p))
        /\ \A u \in UserIdArgs :
              /\ \A p \in AdminUserUpdatePayloads : Untouched(admin_update_user(t, u, p))
              /\ \A p \in AdminPasswordResets : Untouched(admin_reset_password(t, u, p))
        /\ \A ro \in AdminRoleFilters, q \in SearchTexts : Untouched(admin_list_users(t, ro, q))
        /\ \A ro \in RoleFilters : Untouched(list_users(t, ro))

\* With a photo and its file committed, a request ends with each of the
\* codes: 413 for an upload over the limit, 400 for a bad location, 404 for a
\* job that is not stored, 403 for the driver, 401 for no credentials and 409
\* for a phone in use.
C22_Witness ==
    /\ Len(photos) = 1 /\ files # {} /\ Len(events) >= 2
    /\ \E f \in PhotoForms : upload_job_photo("admin1", 1, f).code = 413
    /\ \E f \in SubmitEvidenceForms : submit_evidence("admin1", f).code = 413
    /\ \E f \in PhotoForms : upload_job_photo("admin1", 1, f).code = 400
    /\ \E f \in PhotoForms : upload_job_photo("admin1", Len(jobs) + 1, f).code = 404
    /\ users["driver1"].is_active /\ get_job_evidence("driver1", 1).code = 403
    /\ get_job_evidence(NoCreds, 1).code = 401
    /\ \E p \in AdminUserCreatePayloads : admin_create_user("admin1", p).code = 409

-----------------------------------------------------------------------------
(* Notes.                                                                  *)

\* The lines of a text: its parts between the line breaks.
RECURSIVE SplitLines(_)
SplitLines(s) ==
    IF s = <<>> THEN <<>>
    ELSE IF \A i \in 1..Len(s) : s[i] # "\n" THEN <<s>>
    ELSE LET i == CHOOSE k \in 1..Len(s) : s[k] = "\n" /\ \A m \in 1..(k - 1) : s[m] # "\n"
         IN <<SubSeq(s, 1, i - 1)>> \o SplitLines(SubSeq(s, i + 1, Len(s)))

\* The text of the notes column, "" when it is null.
NotesText(notes) == IF notes = None THEN <<>> ELSE notes[1]

\* The lines of the notes without the blanks around the whole text.
NoteLines(notes) == SplitLines(Strip(NotesText(notes)))

IsPrefix(a, b) == Len(a) <= Len(b) /\ SubSeq(b, 1, Len(a)) = a

\* The line of a note: "[<actor role>] <note>", the note without the blanks
\* around it.
NoteLine(role, note) == <<"[", role, "]", " ">> \o Strip(note)

\* UpdateStatus without a note, AssignDriver and UploadPhoto leave the notes
\* of every job as they were.
NotesLeftAlone ==
    /\ \A t \in Tokens, j \in JobIdArgs, p \in TowJobStatusUpdatePayloads :
          LET r == update_status(t, j, p) IN
          (r.code = 200 /\ ~Truthy(p.notes)) =>
              \A k \in JobIds : r.db.jobs[k].notes = jobs[k].notes
    /\ \A t \in Tokens, j \in JobIdArgs, p \in TowJobAssignPayloads :
          LET r == assign_driver(t, j, p) IN
          r.code = 200 => \A k \in JobIds : r.db.jobs[k].notes = jobs[k].notes
    /\ \A t \in Tokens, j \in JobIdArgs, f \in PhotoForms :
          LET r == upload_job_photo(t, j, f) IN
          r.code = 200 => \A k \in JobIds : r.db.jobs[k].notes = jobs[k].notes

-----------------------------------------------------------------------------
(* Requests in flight.                                                     *)

\* Sessions a and b have assigned a driver to the same job, both read the
\* job before either committed, and a committed first.
RacedAssignments(a, b) ==
    /\ a # b
    /\ inflight[a].pc = "done" /\ inflight[b].pc = "done"
    /\ inflight[a].op = "assign" /\ inflight[b].op = "assign"
    /\ inflight[a].job_id = inflight[b].job_id
    /\ inflight[a].seq < inflight[b].seq
    /\ inflight[b].begun_at < inflight[a].seq

\* No commit of a request in flight is refused, and after two raced
\* assignments the last two events are their ASSIGNED events, one more
\* each than before.
BothAssignmentsRecorded ==
    /\ \A s \in Sessions : inflight[s].pc = "read" => ENABLED CommitSession(s)
    /\ \A a, b \in Sessions :
          RacedAssignments(a, b) =>
              LET j == inflight[a].job_id
                  n == Len(events)
              IN /\ n >= 2
                 /\ events[n - 1].tow_job_id = j /\ events[n].tow_job_id = j
                 /\ events[n - 1].event_type = "ASSIGNED" /\ events[n].event_type = "ASSIGNED"
                 /\ events[n - 1].message = <<"Assigned to driver", inflight[a].args.driver_id>>
                 /\ events[n].message = <<"Assigned to driver", inflight[b].args.driver_id>>
                 /\ Cardinality(EventsOf(j, "ASSIGNED"))
                       = Cardinality({i \in 1..Len(inflight[a].base.events) :
                                        /\ inflight[a].base.events[i].tow_job_id = j
                                        /\ inflight[a].base.events[i].event_type = "ASSIGNED"}) + 2

StatusSetBy(e) ==
    IF e.event_type = "CREATED" THEN Some("NEW")
    ELSE IF e.event_type = "ASSIGNED" THEN Some("ASSIGNED")
    ELSE IF e.event_type = "STATUS_CHANGED" THEN Some(e.message[4])
    ELSE None

\* The status-setting events of job j, oldest first; events of the same
\* time in the order of their insertion.
StatusTrail(j) ==
    SelectSeq(events, LAMBDA e : e.tow_job_id = j /\ StatusSetBy(e) # None)

\* C25: in audit order, the prior status recorded by each STATUS_CHANGED
\* event is the status set by the status-setting event before it, and the
\* status of the job is the status set by its last status-setting event,
\* also when AssignDriver and UpdateStatus requests on the job interleave.
C25_AuditMatchesStatus ==
    \A j \in JobIds :
        LET trail == StatusTrail(j) IN
        /\ trail # <<>>
        /\ \A i \in 2..Len(trail) :
              trail[i].event_type = "STATUS_CHANGED" =>
                  Some(trail[i].message[2]) = StatusSetBy(trail[i - 1])
        /\ Some(jobs[j].status) = StatusSetBy(trail[Len(trail)])

\* C26: an active user with role ADMIN exists, after any sequence and any
\* interleaving of admin user-update requests.
C26_ActiveAdminRemains ==
    \E u \in DOMAIN users : users[u].role = "ADMIN" /\ users[u].is_active

-----------------------------------------------------------------------------
(* The driver of a job.                                                    *)

\* A step keeps a driver that has been set.
DriverKept ==
    \A j \in JobIds :
        jobs[j].assigned_driver_id # None => jobs'[j].assigned_driver_id # None

\* C27: a job whose status is ASSIGNED, EN_ROUTE, ARRIVED or TOWED has an
\* assigned driver, and no step resets a driver that has been set to null.
C27_DriverSetWhenDispatched ==
    /\ [](\A j \in JobIds :
            jobs[j].status \in {"ASSIGNED", "EN_ROUTE", "ARRIVED", "TOWED"} =>
                jobs[j].assigned_driver_id # None)
    /\ [][DriverKept]_vars

-----------------------------------------------------------------------------
(* The photos of a job.                                                    *)

\* C28: DownloadPhoto(job_id, photo_id) returns a photo only when the photo
\* is a photo of job job_id and the caller passes the access guard on that
\* job; a caller who names a job they can access and a photo of another job
\* gets 404 "Photo not found".
C28_PhotoOfNamedJobOnly ==
    \A t \in Tokens, j \in JobIdArgs, ph \in PhotoIdArgs :
        LET r == download_job_photo(t, j, ph) IN
        /\ r.code = 200 =>
              /\ t \in Callers /\ j \in JobIds /\ ph \in 1..Len(photos)
              /\ photos[ph].tow_job_id = j
              /\ GuardRule(t, jobs[j])
              /\ r.body = photos[ph].file_path
        /\ (/\ t \in Callers /\ j \in JobIds /\ ph \in 1..Len(photos)
            /\ GuardRule(t, jobs[j])
            /\ photos[ph].tow_job_id # j) =>
              r.code = 404 /\ r.detail = "Photo not found"

\* Two jobs with a photo each: the officer who owns the second and has no
\* access to the first names the second job and the photo of the first and
\* gets 404, and is served the photo of the own job.
C28_Witness ==
    \E t \in Callers, j \in JobIds, ph, own \in 1..Len(photos) :
        /\ GuardRule(t, jobs[j])
        /\ photos[ph].tow_job_id # j
        /\ ~GuardRule(t, jobs[photos[ph].tow_job_id])
        /\ download_job_photo(t, j, ph).code = 404
        /\ download_job_photo(t, photos[ph].tow_job_id, ph).code = 403
        /\ photos[own].tow_job_id = j
        /\ download_job_photo(t, j, own).code = 200

-----------------------------------------------------------------------------
(* The files under the upload root.                                        *)

\* C29: between requests, every file under the upload root is the file of
\* exactly one photo record and the file of every photo record exists,
\* whatever the outcome of UploadPhoto and SubmitEvidence, a failure of the
\* commit after the file was written included.
C29_NoOrphanFiles ==
    /\ \A f \in files : Cardinality({i \in 1..Len(photos) : photos[i].file_path = f}) = 1
    /\ \A i \in 1..Len(photos) : photos[i].file_path \in files

====
